---- MODULE Spec2Model ----
(***************************************************************************)
(* A state-machine model of the Blockchain coordinator of ganache-core     *)
(* (chains/ethereum/src/blockchain.ts): lifecycle, the mining trigger, the *)
(* block commit pipeline, snapshot/revert and time control.                *)
(*                                                                         *)
(* Every `await` of the source is a suspension point.  A suspended         *)
(* continuation is an entry of `tasks`; continuations run in the order in  *)
(* which they became runnable (the JavaScript job queue).  Database        *)
(* batches are in flight in `dbq` and land in submission order; a write,   *)
(* a read or a run of the miner completes only when no continuation is     *)
(* runnable.  Public calls may arrive between any two steps.               *)
(***************************************************************************)
EXTENDS Integers, Sequences, FiniteSets, TLC

\* ------------------------------------------------------------------ bounds
MaxTx == 1          \* transactions ever queued
MaxMine == 1        \* explicit mine() calls
MaxSnapshots == 1   \* depth of the snapshot stack
MaxAdjust == 1      \* largest timeAdjustment reached by increaseTime
MaxStop == 1        \* stop() calls
MaxInFlight == 3    \* database writes in flight when the walk of revert reads

\* the bounds of SpecChain
ChainMine == 3
ChainSnapshots == 1
ChainAdjust == 1
ChainInFlight == 2

\* the bounds of SpecInstant
InstantTx == 2
InstantStop == 2
InstantWarned == 1

\* SpecRunning
RunningTx == 3

\* SpecLegacy
LegacyTx == 3

\* SpecInterval
IntervalTx == 2
IntervalTicks == 2

\* SpecWaiting
WaitingTx == 3

\* SpecFailing
FailingTx == 2
FailingMine == 2
FailingCommits == 1

\* SpecSnapshots
SnapMine == 1
SnapAdjust == 1
SnapDepth == 2
SnapInFlight == 2

\* SpecTime
TimeMine == 1
TimeNow == 1
TimeAdjust == 1
TimeDepth == 1
TimeInFlight == 2

\* arguments of the calls
IncreaseTimeArgs == {-1, 1}
SetTimeArgs == {0}

\* ------------------------------------------------------- enum Status (flags)
started == 1
starting == 2
stopped == 4
stopping == 8
paused == 16

HasFlag(s, f) == (s \div f) % 2 = 1
\* s | f
OrFlag(s, f) == IF HasFlag(s, f) THEN s ELSE s + f
\* s ^ f
XorFlag(s, f) == IF HasFlag(s, f) THEN s - f ELSE s + f

\* ------------------------------------------------------------------ blocks
ZeroHash == <<>>
\* the state trie before the initial accounts are committed
EmptyRoot == {}
\* item 0 of a state root stands for the initial accounts, item t > 0 for
\* the effects of transaction t
AccountsItem == 0

NullBlock ==
  [number |-> -1, parentHash |-> ZeroHash, timestamp |-> 0,
   transactions |-> {}, stateRoot |-> EmptyRoot]

IsNull(b) == b.number < 0

\* header.hash(): collision free, a function of the header fields
Hash(b) ==
  <<b.number, b.parentHash, b.timestamp, b.transactions, b.stateRoot>>

createBlock(parentHash, number, timestamp, transactions, stateRoot) ==
  [number |-> number, parentHash |-> parentHash, timestamp |-> timestamp,
   transactions |-> transactions, stateRoot |-> stateRoot]

VARIABLES
  state,            \* #state
  startPc,          \* position of the database "ready" handler
  database,         \* "open" | "closing" | "closed"
  now,              \* wall clock, seconds
  timeAdjustment,   \* #timeAdjustment
  trie,             \* this.trie.root
  earliest,         \* this.blocks.earliest
  latest,           \* this.blocks.latest
  blocksByNumber,   \* blocks keyspace, keys that are block numbers
  blocksByHash,     \* blocks keyspace, keys that are block hashes
  txRecords,        \* transactions keyspace (keys)
  receiptRecords,   \* transactionReceipts keyspace (keys)
  blockLogRecords,  \* blockLogs keyspace: block number -> block hash
  dbq,              \* database writes in flight, in submission order
  processingBlock,  \* #processingBlock: [id, block]; id 0 = resolved
  tasks,            \* suspended continuations, in the order they suspended
  pool,             \* executable transactions of the transaction pool
  nextTx,           \* the next transaction a caller will queue
  mineCalls,        \* explicit mine() calls made so far
  waitingOnResume,  \* the drain handler's waitingOnResume is set
  snapshots,        \* #snapshots
  snapshotId,       \* what the last snapshot() call returned
  rev,              \* the running revert() call and the last result
  emitted,          \* what has been emitted: start, stop count, the last
                    \* of "pause" and "resume", the hashes of "block" and
                    \* of "blockLogs", the transactions of "transaction:"
                    \* and of "transaction-failure:", and the events of
                    \* the last broadcast of a block in emission order;
                    \* and the warnings resume() has logged
  returned,         \* hashes queueTransaction has returned
  execution,        \* a call of Executor.execute: its arguments, the
                    \* functions it has called and the error it has thrown
  timer,            \* the interval timer: the timeouts that are pending and
                    \* the ticks made
  thrown,           \* hashes whose queueTransaction call has thrown, and
                    \* whether the error carries the hash as .result
  options,          \* #options: legacyInstamine, vmErrorsOnRPCResponse
  closedBy          \* which stop() call closed the database

vars ==
  <<state, startPc, database, now, timeAdjustment, trie, earliest, latest,
    blocksByNumber, blocksByHash, txRecords, receiptRecords, blockLogRecords,
    dbq, processingBlock, tasks, pool, nextTx, mineCalls, waitingOnResume,
    snapshots, snapshotId, rev, emitted, returned, thrown, timer, options,
    closedBy, execution>>

chainVars ==
  <<trie, earliest, latest, processingBlock>>

storeVars ==
  <<blocksByNumber, blocksByHash, txRecords, receiptRecords, blockLogRecords>>

lifeVars ==
  <<state, startPc, database, closedBy, options>>

timeVars ==
  <<now, timeAdjustment>>

poolVars ==
  <<pool, nextTx, mineCalls, waitingOnResume, returned, thrown, timer>>

\* #isPaused
isPaused == HasFlag(state, paused)

\* #currentTime
currentTime == now + timeAdjustment

IdleRevert ==
  [pc |-> "idle", snapshot |-> <<>>, currentBlock |-> NullBlock,
   nextBlock |-> NullBlock, rootPending |-> FALSE, fetched |-> NullBlock,
   result |-> "none"]

\* the options of a Blockchain in instant mode
Options ==
  [legacyInstamine : BOOLEAN, vmErrorsOnRPCResponse : BOOLEAN,
   blockTime : {0}]

DefaultOptions ==
  [legacyInstamine |-> FALSE, vmErrorsOnRPCResponse |-> FALSE,
   blockTime |-> 0]

\* the options of a Blockchain that mines on an interval
IntervalOptions == [DefaultOptions EXCEPT !.blockTime = 1]

\* #instamine
instamine == options.blockTime <= 0

\* new Blockchain(o)
Constructed(o) ==
  /\ options = o
  /\ state = starting
  /\ startPc = "ready"
  /\ database = "open"
  /\ now = 0
  /\ timeAdjustment = 0
  /\ trie = EmptyRoot
  /\ earliest = NullBlock
  /\ latest = NullBlock
  /\ blocksByNumber = <<>>
  /\ blocksByHash = {}
  /\ txRecords = {}
  /\ receiptRecords = {}
  /\ blockLogRecords = <<>>
  /\ dbq = <<>>
  /\ processingBlock = [id |-> 0, block |-> NullBlock]
  /\ tasks = <<>>
  /\ pool = {}
  /\ nextTx = 1
  /\ mineCalls = 0
  /\ waitingOnResume = FALSE
  /\ snapshots = <<>>
  /\ snapshotId = 0
  /\ rev = IdleRevert
  /\ emitted = [start |-> 0, stop |-> 0, blocks |-> {}, last |-> "none",
                transactions |-> {}, failures |-> {}, blockLogs |-> {},
                broadcast |-> <<>>, warned |-> 0, unhandled |-> {}]
  /\ returned = {}
  /\ thrown = {}
  /\ timer = [pending |-> 0, ticks |-> 0]
  /\ closedBy = "none"

\* Executor.execute has not been called
NoExecution ==
  [pc |-> "none", ledger |-> <<>>, methodName |-> <<>>, called |-> <<>>,
   thrown |-> <<>>]

Init == Constructed(DefaultOptions) /\ execution = NoExecution

\* any of the options
InitOptions ==
  /\ \E o \in Options : Constructed(o)
  /\ execution = NoExecution

InitInterval == Constructed(IntervalOptions) /\ execution = NoExecution

\* --------------------------------------------------------------- database
\* the keyspace f with value b stored under key n
PutKey(f, n, b) ==
  [k \in (DOMAIN f) \cup {n} |-> IF k = n THEN b ELSE f[k]]

\* the keyspace f without key n
DelKey(f, n) ==
  [k \in (DOMAIN f) \ {n} |-> f[k]]

\* blocks.get(number): the block stored under the number, or null
GetByNumber(n) ==
  IF n \in DOMAIN blocksByNumber THEN blocksByNumber[n] ELSE NullBlock

\* blocks.getByHash(hash): the block stored under the hash, or null
GetByHash(h) ==
  IF \E b \in blocksByHash : Hash(b) = h
    THEN CHOOSE b \in blocksByHash : Hash(b) = h
    ELSE NullBlock

InFlightIds == {dbq[i].id : i \in DOMAIN dbq}

\* a name for a promise that is not yet resolved
NewId ==
  1 + (CHOOSE m \in InFlightIds \cup {0} :
         \A x \in InFlightIds \cup {0} : x <= m)

\* a commit or genesis write is in flight
CommitInFlight ==
  \E i \in DOMAIN dbq : dbq[i].kind \in {"commit", "genesis"}

\* the promise named id resolves: its awaiters become runnable
Resolved(ts, id) ==
  [i \in DOMAIN ts |->
     IF ts[i].w = id THEN [ts[i] EXCEPT !.w = 0] ELSE ts[i]]

\* ------------------------------------------------------------------ tasks
ReadyTasks == {i \in DOMAIN tasks : tasks[i].w = 0}

FirstReady == CHOOSE i \in ReadyTasks : \A j \in ReadyTasks : i <= j

\* the continuation that runs next is of kind k
Runs(k) == ReadyTasks # {} /\ tasks[FirstReady].k = k

Without(ts, i) ==
  [j \in 1..(Len(ts) - 1) |-> IF j < i THEN ts[j] ELSE ts[j + 1]]

Task(k, w) ==
  [k |-> k, w |-> w, max |-> 0, txs |-> {}, ts |-> 0, block |-> NullBlock,
   interval |-> FALSE]

\* waits for an event rather than for a promise of the commit pipeline
OnEvent == -1

\* a run of the miner: it ends when the miner emits "block"
OnMiner == -2

\* no continuation is runnable: timers and the completions of reads and
\* writes are delivered only then
MicrotasksDone == ReadyTasks = {}

\* ---------------------------------------------------------------- start-up
\* database.on("ready"): the managers and the VM are built and the commit
\* of the initial accounts is started
DatabaseReady ==
  /\ startPc = "ready"
  /\ startPc' = "accounts"
  /\ UNCHANGED <<state, database, closedBy, timeVars, chainVars, storeVars,
                 dbq, tasks, poolVars, snapshots, snapshotId, rev, emitted,
                 options, execution>>

\* #initializeGenesisBlock
Genesis(timestamp, stateRoot) ==
  createBlock(ZeroHash, 0, timestamp, {}, stateRoot)

\* utils.unref(setTimeout(intervalMine, minerInterval))
TimerSet(t) == [t EXCEPT !.pending = @ + 1]

\* #commitAccounts has resolved: the genesis block is created and its write
\* started, the miner is built and its handlers are wired; unless the chain
\* mines instantly, the interval timer is set
AccountsCommitted ==
  /\ MicrotasksDone
  /\ startPc = "accounts"
  /\ startPc' = "genesis"
  /\ trie' = trie \cup {AccountsItem}
  /\ LET genesis == Genesis(currentTime, trie') IN
       /\ processingBlock' = [id |-> NewId, block |-> genesis]
       /\ dbq' = Append(dbq, [kind |-> "genesis", id |-> NewId,
                              block |-> genesis])
  /\ timer' = IF instamine THEN timer ELSE TimerSet(timer)
  /\ UNCHANGED <<state, database, closedBy, timeVars, earliest, latest,
                 storeVars, tasks, pool, nextTx, mineCalls,
                 waitingOnResume, returned, thrown, snapshots, snapshotId,
                 rev, emitted, options, execution>>

\* blocks.putBlock(genesis) has been written
GenesisPersisted ==
  /\ MicrotasksDone
  /\ dbq # <<>>
  /\ Head(dbq).kind = "genesis"
  /\ LET w == Head(dbq) IN
       /\ blocksByNumber' = PutKey(blocksByNumber, w.block.number, w.block)
       /\ blocksByHash' = blocksByHash \cup {w.block}
       /\ tasks' = Resolved(tasks, w.id)
       /\ processingBlock' =
            IF processingBlock.id = w.id
              THEN [processingBlock EXCEPT !.id = 0]
              ELSE processingBlock
  /\ dbq' = Tail(dbq)
  /\ UNCHANGED <<lifeVars, timeVars, trie, earliest, latest, txRecords,
                 receiptRecords, blockLogRecords, poolVars, snapshots,
                 snapshotId, rev, emitted, execution>>

\* the start-up handler does not wait for the genesis write
GenesisNotAwaited == TRUE

\* the start-up handler waits for the genesis write
GenesisAwaited == processingBlock.id = 0

\* this.emit("start"): the stop() calls that wait for it continue
StartEmitted(ts) ==
  [i \in DOMAIN ts |->
     IF ts[i].k = "stop" /\ ts[i].w = OnEvent
       THEN [ts[i] EXCEPT !.w = 0] ELSE ts[i]]

\* earliest = latest = genesis; #state = started; emit("start")
StartFinish ==
  /\ startPc = "genesis"
  /\ GenesisAwaited
  /\ startPc' = "done"
  /\ earliest' = processingBlock.block
  /\ latest' = processingBlock.block
  /\ state' = started
  /\ emitted' = [emitted EXCEPT !.start = @ + 1]
  /\ tasks' = StartEmitted(tasks)
  /\ UNCHANGED <<database, closedBy, timeVars, trie, processingBlock,
                 storeVars, dbq, poolVars, snapshots, snapshotId, rev,
                 options, execution>>

\* ---------------------------------------------------------------- lifecycle
\* pause()
Pause ==
  /\ state' = OrFlag(state, paused)
  /\ state' # state
  /\ emitted' = [emitted EXCEPT !.last = "pause"]
  /\ UNCHANGED <<startPc, database, closedBy, timeVars, chainVars, storeVars,
                 dbq, tasks, poolVars, snapshots, snapshotId, rev, options,
                 execution>>

\* once("resume") was never registered
ResumeUnheard == FALSE

\* the listener of once("resume") is registered and has not fired
ListensForResume ==
  waitingOnResume /\ \A i \in DOMAIN tasks : tasks[i].k # "resumed"

\* this.emit("resume"): the once("resume") of a timer tick is resolved
ResumeEmitted(ts) ==
  [i \in DOMAIN ts |->
     IF ts[i].k = "tick-paused" /\ ts[i].w = OnEvent
       THEN [ts[i] EXCEPT !.w = 0] ELSE ts[i]]

\* resume(): a no-op with a warning unless the paused bit is set
Resume ==
  /\ isPaused
  /\ state' = XorFlag(state, paused)
  /\ tasks' = IF ListensForResume
                THEN Append(ResumeEmitted(tasks), Task("resumed", 0))
                ELSE ResumeEmitted(tasks)
  /\ emitted' = [emitted EXCEPT !.last = "resume"]
  /\ UNCHANGED <<startPc, database, closedBy, timeVars, chainVars, storeVars,
                 dbq, poolVars, snapshots, snapshotId, rev, options,
                 execution>>

\* resume() toggles the paused bit although it is not set
ResumeToggles(maxWarned) ==
  /\ ~isPaused
  /\ emitted.warned < maxWarned
  /\ state' = XorFlag(state, paused)
  /\ emitted' = [emitted EXCEPT !.last = "resume", !.warned = @ + 1]
  /\ UNCHANGED <<startPc, database, closedBy, timeVars, chainVars, storeVars,
                 dbq, tasks, poolVars, snapshots, snapshotId, rev, options,
                 execution>>

\* resume() while the paused bit is not set: the warning is logged and
\* nothing else is done
ResumeWarns(maxWarned) ==
  /\ ~isPaused
  /\ emitted.warned < maxWarned
  /\ emitted' = [emitted EXCEPT !.warned = @ + 1]
  /\ UNCHANGED <<lifeVars, timeVars, chainVars, storeVars, dbq, tasks,
                 poolVars, snapshots, snapshotId, rev, execution>>

\* stop() calls made so far
StopCalls ==
  emitted.stop
  + Cardinality({i \in DOMAIN tasks : tasks[i].k = "stop"})
  + (IF database = "closing" THEN 1 ELSE 0)

\* stop() waits for "start" first
StopWaits(s) == s = starting

\* stop() closes the database
StopCloses(s) == s = started

\* stop(), from the test of `started` on
StopBody(who) ==
  IF StopCloses(state)
    THEN /\ state' = stopping
         /\ database' = "closing"
         /\ closedBy' = who
         /\ emitted' = emitted
    ELSE /\ emitted' = [emitted EXCEPT !.stop = @ + 1]
         /\ UNCHANGED <<state, database, closedBy>>

\* a call of stop()
Stop(maxStop) ==
  /\ StopCalls < maxStop
  /\ IF StopWaits(state)
       THEN /\ tasks' = Append(tasks, Task("stop", OnEvent))
            /\ UNCHANGED <<state, database, closedBy, emitted>>
       ELSE /\ StopBody("direct")
            /\ tasks' = tasks
  /\ UNCHANGED <<startPc, timeVars, chainVars, storeVars, dbq, poolVars,
                 snapshots, snapshotId, rev, options, execution>>

\* stop() continues after "start"
StopContinue ==
  /\ Runs("stop")
  /\ StopBody("waited")
  /\ tasks' = Without(tasks, FirstReady)
  /\ UNCHANGED <<startPc, timeVars, chainVars, storeVars, dbq, poolVars,
                 snapshots, snapshotId, rev, options, execution>>

\* database.close() has resolved: #state = stopped; emit("stop")
DatabaseClosed ==
  /\ MicrotasksDone
  /\ database = "closing"
  /\ database' = "closed"
  /\ state' = stopped
  /\ emitted' = [emitted EXCEPT !.stop = @ + 1]
  /\ UNCHANGED <<startPc, closedBy, timeVars, chainVars, storeVars, dbq,
                 tasks, poolVars, snapshots, snapshotId, rev, options,
                 execution>>

\* ------------------------------------------------------------- public calls
\* a public call of the started chain
Callable == emitted.start > 0 /\ database = "open"

\* mine() up to its first await: it waits for #processingBlock
MineTask(maxTransactions) ==
  [Task("mine", processingBlock.id) EXCEPT !.max = maxTransactions]

\* transactionPool.on("drain"), which is listened to in instant mode only:
\* the mine() calls it makes
DrainMines(ts) ==
  IF isPaused \/ ~instamine THEN ts ELSE Append(ts, MineTask(1))

\* queueTransaction(), to the await of transactions.push: the pool accepts
\* the transaction and emits "drain"
QueueTransaction(maxTx) ==
  /\ Callable
  /\ nextTx <= maxTx
  /\ pool' = pool \cup {nextTx}
  /\ nextTx' = nextTx + 1
  /\ waitingOnResume' = (waitingOnResume \/ (isPaused /\ instamine))
  /\ tasks' = Append(DrainMines(tasks),
                     [Task("queued", 0) EXCEPT !.txs = {nextTx}])
  /\ UNCHANGED <<lifeVars, timeVars, chainVars, storeVars, dbq, mineCalls,
                 returned, snapshots, snapshotId, rev, emitted, thrown,
                 timer, execution>>

\* queueTransaction() in instant mode waits for the transaction to be mined
WaitsForTransaction == ~isPaused /\ instamine /\ options.legacyInstamine

\* queueTransaction(), after transactions.push has resolved: it returns the
\* hash, or it waits for the first of once("transaction:" + hash) and
\* once("transaction-failure:" + hash)
QueueTransactionReturn ==
  /\ Runs("queued")
  /\ IF WaitsForTransaction
       THEN /\ tasks' = [tasks EXCEPT ![FirstReady] =
                          [@ EXCEPT !.k = "raced", !.w = OnEvent]]
            /\ returned' = returned
       ELSE /\ tasks' = Without(tasks, FirstReady)
            /\ returned' = returned \cup tasks[FirstReady].txs
  /\ UNCHANGED <<lifeVars, timeVars, chainVars, storeVars, dbq, pool, nextTx,
                 mineCalls, waitingOnResume, snapshots, snapshotId, rev,
                 emitted, thrown, timer, execution>>

\* the events reach no listener
Unheard(ts, transactions, event) == ts

\* an event named after each of the transactions is emitted: the races that
\* wait for one of them are settled by it
Fired(ts, transactions, event) ==
  [i \in DOMAIN ts |->
     IF ts[i].k = "raced" /\ ts[i].txs \cap transactions # {}
       THEN [ts[i] EXCEPT !.k = event, !.w = 0]
       ELSE ts[i]]

\* the error is thrown as the miner gave it
ErrorAsGiven(t) == [tx |-> t, result |-> FALSE]

\* the error queueTransaction throws: errOrVoid.result = hash
ErrorOf(t) == [tx |-> t, result |-> options.vmErrorsOnRPCResponse]

\* queueTransaction(), after the race: it throws the error of
\* "transaction-failure:" + hash, or returns the hash
QueueTransactionSettles ==
  /\ Runs("transaction") \/ Runs("transaction-failure")
  /\ IF tasks[FirstReady].k = "transaction-failure"
       THEN /\ thrown' = thrown \cup {ErrorOf(t) : t \in tasks[FirstReady].txs}
            /\ returned' = returned
       ELSE /\ returned' = returned \cup tasks[FirstReady].txs
            /\ thrown' = thrown
  /\ tasks' = Without(tasks, FirstReady)
  /\ UNCHANGED <<lifeVars, timeVars, chainVars, storeVars, dbq, pool, nextTx,
                 mineCalls, waitingOnResume, snapshots, snapshotId, rev,
                 emitted, timer, execution>>

\* the once("resume") of the drain handler has fired and mine(-1) is called,
\* but waitingOnResume is left as it was
ResumedMineKeepsPromise ==
  /\ Runs("resumed")
  /\ waitingOnResume' = waitingOnResume
  /\ tasks' = Append(Without(tasks, FirstReady), MineTask(-1))
  /\ UNCHANGED <<lifeVars, timeVars, chainVars, storeVars, dbq, pool, nextTx,
                 mineCalls, returned, snapshots, snapshotId, rev, emitted,
                 thrown, timer, execution>>

\* the once("resume") of the drain handler has fired: mine(-1)
ResumedMine ==
  /\ Runs("resumed")
  /\ waitingOnResume' = FALSE
  /\ tasks' = Append(Without(tasks, FirstReady), MineTask(-1))
  /\ UNCHANGED <<lifeVars, timeVars, chainVars, storeVars, dbq, pool, nextTx,
                 mineCalls, returned, snapshots, snapshotId, rev, emitted,
                 thrown, timer, execution>>

\* a call of mine(-1)
Mine(maxMine) ==
  /\ Callable
  /\ mineCalls < maxMine
  /\ mineCalls' = mineCalls + 1
  /\ tasks' = Append(tasks, MineTask(-1))
  /\ UNCHANGED <<lifeVars, timeVars, chainVars, storeVars, dbq, pool, nextTx,
                 waitingOnResume, returned, snapshots, snapshotId, rev,
                 emitted, thrown, timer, execution>>

\* the transactions Miner.mine may take from the executables
MinerPicks(maxTransactions) ==
  IF maxTransactions = 1 /\ pool # {}
    THEN {{t} : t \in pool}
    ELSE {pool}

\* Miner.mine(executables, nextBlock, maxTransactions): the run it starts
MinerTask(transactions, timestamp) ==
  [Task("miner", OnMiner) EXCEPT !.txs = transactions, !.ts = timestamp]

\* miner.on("block") up to its first await: it waits for #processingBlock
BlockTask(transactions, timestamp) ==
  [Task("block", processingBlock.id)
     EXCEPT !.txs = transactions, !.ts = timestamp]

\* the start-up handler awaited the genesis write before any mine() did, so
\* its continuation runs first
StartContinued == startPc # "genesis"

\* mine() after #processingBlock: #readyNextBlock(latest) and Miner.mine,
\* which takes transactions from the executables
MineContinue ==
  /\ Runs("mine")
  /\ StartContinued
  /\ IF IsNull(latest)
       THEN /\ tasks' = Without(tasks, FirstReady)
            /\ pool' = pool
       ELSE \E picked \in MinerPicks(tasks[FirstReady].max) :
              /\ pool' = pool \ picked
              /\ tasks' = Append(Without(tasks, FirstReady),
                                 [MinerTask(picked, currentTime) EXCEPT
                                    !.interval = tasks[FirstReady].interval])
  /\ UNCHANGED <<lifeVars, timeVars, chainVars, storeVars, dbq, nextTx,
                 mineCalls, waitingOnResume, returned, snapshots,
                 snapshotId, rev, emitted, thrown, timer, execution>>

\* the runs of the miner, oldest first
MinerRuns == {i \in DOMAIN tasks : tasks[i].k = "miner"}

\* the transactions the VM fails to run
Failing == {3}

\* miner.on("transaction-failure"): "transaction-failure:" + txHash is
\* emitted with failureData.err
TransactionFailure(e, transactions) ==
  [e EXCEPT !.failures = @ \cup transactions]

\* the timer stays set when it fires, as one of setInterval would
TimerRepeats(t) == [t EXCEPT !.ticks = @ + 1]

\* a timeout of setTimeout fires once
TimerFires(t) == [t EXCEPT !.pending = @ - 1, !.ticks = @ + 1]

\* intervalMine: one tick of the interval timer. mine(-1) is called, after
\* the next "resume" if the chain is paused
IntervalTick(maxTicks) ==
  /\ MicrotasksDone
  /\ timer.pending > 0
  /\ timer.ticks < maxTicks
  /\ timer' = TimerFires(timer)
  /\ tasks' = Append(tasks,
                IF isPaused
                  THEN [Task("tick-paused", OnEvent) EXCEPT !.interval = TRUE]
                  ELSE [MineTask(-1) EXCEPT !.interval = TRUE])
  /\ UNCHANGED <<lifeVars, timeVars, chainVars, storeVars, dbq, pool, nextTx,
                 mineCalls, waitingOnResume, returned, thrown, snapshots,
                 snapshotId, rev, emitted, execution>>

\* once("resume").then(() => this.mine(-1)) of a tick that found the chain
\* paused
IntervalResumed ==
  /\ Runs("tick-paused")
  /\ tasks' = Append(Without(tasks, FirstReady),
                     [MineTask(-1) EXCEPT !.interval = TRUE])
  /\ UNCHANGED <<lifeVars, timeVars, chainVars, storeVars, dbq, poolVars,
                 snapshots, snapshotId, rev, emitted, execution>>

\* promise.then(() => utils.unref(setTimeout(intervalMine, minerInterval))):
\* the mine() of the tick has resolved and the timer is set again
MineResolved(t) == TimerSet(t)

\* the miner has run the transactions on the trie: it emits
\* "transaction-failure" for each one that failed and "block" with the rest
MinerEmits ==
  /\ MicrotasksDone
  /\ MinerRuns # {}
  /\ LET i == CHOOSE i \in MinerRuns : \A j \in MinerRuns : i <= j
         t == tasks[i]
         failed == t.txs \cap Failing
     IN /\ trie' = trie \cup (t.txs \ failed)
        /\ emitted' = TransactionFailure(emitted, failed)
        /\ tasks' = Append(Fired(Without(tasks, i), failed,
                                 "transaction-failure"),
                           BlockTask(t.txs \ failed, t.ts))
        /\ timer' = IF t.interval THEN MineResolved(timer) ELSE timer
  /\ UNCHANGED <<lifeVars, timeVars, earliest, latest, processingBlock,
                 storeVars, dbq, pool, nextTx, mineCalls, waitingOnResume,
                 returned, thrown, snapshots, snapshotId, rev, execution>>

\* miner.on("block") after #processingBlock: the block is assembled on
\* latest, latest is set to it and its batch is opened
BlockHandler ==
  /\ Runs("block")
  /\ IF IsNull(latest)
       THEN /\ tasks' = Without(tasks, FirstReady)
            /\ UNCHANGED <<latest, processingBlock, dbq>>
       ELSE LET t == tasks[FirstReady]
                block == createBlock(Hash(latest), latest.number + 1,
                                     t.ts, t.txs, trie)
            IN /\ latest' = block
               /\ processingBlock' = [id |-> NewId, block |-> block]
               /\ dbq' = Append(dbq, [kind |-> "commit", id |-> NewId,
                                      block |-> block])
               /\ tasks' = Without(tasks, FirstReady)
  /\ UNCHANGED <<lifeVars, timeVars, trie, earliest, storeVars, poolVars,
                 snapshots, snapshotId, rev, emitted, execution>>

\* the batch of a commit that leaves the blockLogs keyspace alone
BlockLogsNotSet(logs, block) == logs

\* this.blockLogs.set(blockNumber, blockLogs.serialize())
BlockLogsSet(logs, block) == PutKey(logs, block.number, Hash(block))

\* emit("block", block); emit("blockLogs", blockLogs)
Broadcast(e, block) ==
  [e EXCEPT !.blocks = @ \cup {Hash(block)},
            !.blockLogs = @ \cup {Hash(block)},
            !.broadcast = <<"block", "blockLogs">>]

\* no event is emitted for the transactions of the block
TransactionsUnannounced(e, block) == e

\* block.value.transactions.forEach: emit("transaction:" + hash)
TransactionsMined(e, block) ==
  [e EXCEPT !.transactions = @ \cup block.transactions]

\* process.nextTick(() => ...): the delayed broadcast of the block
TickTask(block) == [Task("tick", 0) EXCEPT !.block = block]

\* the batch of a commit has been written and #processingBlock resolves:
\* latest = block; then the transaction events and the delayed broadcast
\* of legacy instamine, or emit("block"); emit("blockLogs")
CommitResolved ==
  /\ MicrotasksDone
  /\ dbq # <<>>
  /\ Head(dbq).kind = "commit"
  /\ LET w == Head(dbq) IN
       /\ txRecords' = txRecords \cup w.block.transactions
       /\ receiptRecords' = receiptRecords \cup w.block.transactions
       /\ blockLogRecords' = BlockLogsSet(blockLogRecords, w.block)
       /\ blocksByNumber' = PutKey(blocksByNumber, w.block.number, w.block)
       /\ blocksByHash' = blocksByHash \cup {w.block}
       /\ processingBlock' =
            IF processingBlock.id = w.id
              THEN [processingBlock EXCEPT !.id = 0]
              ELSE processingBlock
       /\ latest' = w.block
       /\ IF instamine /\ options.legacyInstamine
            THEN /\ emitted' = TransactionsMined(emitted, w.block)
                 /\ tasks' = Append(Fired(Resolved(tasks, w.id),
                                          w.block.transactions,
                                          "transaction"),
                                    TickTask(w.block))
            ELSE /\ emitted' = Broadcast(emitted, w.block)
                 /\ tasks' = Resolved(tasks, w.id)
  /\ dbq' = Tail(dbq)
  /\ UNCHANGED <<lifeVars, timeVars, trie, earliest, poolVars, snapshots,
                 snapshotId, rev, execution>>

\* #processingBlock is a rejected promise: whatever awaits it throws
Rejected == -3

\* the continuations that awaited the promise id throw
Throws(ts, id) == SelectSeq(ts, LAMBDA t : t.w # id)

\* the batch of a commit fails: nothing of it is written, #processingBlock
\* is rejected, its .then callback is not called and nothing handles the
\* rejection
CommitFailed(maxFailed) ==
  /\ MicrotasksDone
  /\ Cardinality(emitted.unhandled) < maxFailed
  /\ dbq # <<>>
  /\ Head(dbq).kind = "commit"
  /\ LET w == Head(dbq) IN
       /\ processingBlock' =
            IF processingBlock.id = w.id
              THEN [processingBlock EXCEPT !.id = Rejected]
              ELSE processingBlock
       /\ emitted' = [emitted EXCEPT !.unhandled = @ \cup {Hash(w.block)}]
       /\ tasks' = Throws(tasks, w.id)
  /\ dbq' = Tail(dbq)
  /\ UNCHANGED <<lifeVars, timeVars, trie, earliest, latest, storeVars,
                 poolVars, snapshots, snapshotId, rev, execution>>

\* the callback of process.nextTick: emit("block"); emit("blockLogs")
DelayedBroadcast ==
  /\ Runs("tick")
  /\ emitted' = Broadcast(emitted, tasks[FirstReady].block)
  /\ tasks' = Without(tasks, FirstReady)
  /\ UNCHANGED <<lifeVars, timeVars, chainVars, storeVars, dbq, poolVars,
                 snapshots, snapshotId, rev, execution>>

\* ------------------------------------------------------------------- time
\* the seconds are added as they are given
Unclamped(seconds) == seconds

\* if (seconds < 0) seconds = 0
Clamped(seconds) == IF seconds < 0 THEN 0 ELSE seconds

\* increaseTime(seconds)
IncreaseTime(seconds, maxAdjust) ==
  /\ Callable
  /\ LET s == Clamped(seconds) IN
       /\ timeAdjustment + s <= maxAdjust
       /\ timeAdjustment' = timeAdjustment + s
  /\ UNCHANGED <<lifeVars, now, chainVars, storeVars, dbq, tasks, poolVars,
                 snapshots, snapshotId, rev, emitted, execution>>

\* setTime(timestamp), timestamp in milliseconds
SetTime(timestamp) ==
  /\ Callable
  /\ timeAdjustment' = (timestamp - now * 1000) \div 1000
  /\ UNCHANGED <<lifeVars, now, chainVars, storeVars, dbq, tasks, poolVars,
                 snapshots, snapshotId, rev, emitted, execution>>

\* Date.now(): a second of wall time passes
Tick(maxNow) ==
  /\ now < maxNow
  /\ now' = now + 1
  /\ UNCHANGED <<lifeVars, timeAdjustment, chainVars, storeVars, dbq, tasks,
                 poolVars, snapshots, snapshotId, rev, emitted, execution>>

\* ------------------------------------------------------- snapshot / revert
\* the index of the pushed entry
IndexOfLast(stack) == Len(stack) - 1

\* Array.push returns the new length of the array
PushReturns(stack) == Len(stack)

\* snapshot()
Snapshot(maxSnapshots) ==
  /\ Callable
  /\ Len(snapshots) < maxSnapshots
  /\ ~IsNull(latest)
  /\ snapshots' = Append(snapshots,
                         [hash |-> Hash(latest),
                          stateRoot |-> latest.stateRoot,
                          timeAdjustment |-> timeAdjustment])
  /\ snapshotId' = PushReturns(snapshots')
  /\ UNCHANGED <<lifeVars, timeVars, chainVars, storeVars, dbq, tasks,
                 poolVars, rev, emitted, execution>>

\* #deleteBlockData(block): the batch it opens
DeleteBatch(block) == [kind |-> "delete", id |-> 0, block |-> block]

\* the batch of #deleteBlockData has been written
DeleteLanded ==
  /\ MicrotasksDone
  /\ dbq # <<>>
  /\ Head(dbq).kind = "delete"
  /\ LET b == Head(dbq).block IN
       /\ blocksByNumber' = DelKey(blocksByNumber, b.number)
       /\ blocksByHash' = {x \in blocksByHash : Hash(x) # Hash(b)}
       /\ txRecords' = txRecords \ b.transactions
       /\ receiptRecords' = receiptRecords \ b.transactions
  /\ dbq' = Tail(dbq)
  /\ UNCHANGED <<lifeVars, timeVars, chainVars, blockLogRecords, tasks,
                 poolVars, snapshots, snapshotId, rev, emitted, execution>>

\* revert never returns at once
AlwaysWalks(currentHash, snapshotHash) == FALSE

\* revert returns at once when nothing was added since the snapshot
NothingAdded(currentHash, snapshotHash) == currentHash = snapshotHash

\* the walk of revert stops at this block
WalkEnds(block, snapshotHash) == block.parentHash = snapshotHash

\* the block the walk of revert asks the database for next
WalkNext(block) == GetByNumber(block.number)

\* one turn of the do/while of revert
Walk(r, block) ==
  [r EXCEPT !.nextBlock = block,
            !.pc = IF WalkEnds(block, r.snapshot.hash) THEN "all" ELSE "get"]

\* revert(snapshotId) with a snapshotId whose value is null or undefined
RevertNull ==
  /\ Callable
  /\ rev.pc = "idle"
  /\ rev' = [IdleRevert EXCEPT !.result = "threw"]
  /\ UNCHANGED <<lifeVars, timeVars, chainVars, storeVars, dbq, tasks,
                 poolVars, snapshots, snapshotId, emitted, execution>>

\* the array is emptied whatever the start
SplicedFromZero(stack, start) == <<>>

\* the array keeps the element at start as well
SplicedAfterStart(stack, start) ==
  SubSeq(stack, 1, IF start + 1 < Len(stack) THEN start + 1 ELSE Len(stack))

\* what Array.splice(start) leaves of the array, start >= 0
Spliced(stack, start) ==
  SubSeq(stack, 1, IF start < Len(stack) THEN start ELSE Len(stack))

\* revert(snapshotId), to its first await
Revert(rawValue) ==
  /\ Callable
  /\ rev.pc = "idle"
  /\ ~IsNull(latest)
  /\ LET snapshotNumber == rawValue - 1 IN
     IF snapshotNumber < 0
       THEN /\ rev' = [IdleRevert EXCEPT !.result = "false"]
            /\ UNCHANGED <<snapshots, dbq>>
       ELSE
         /\ snapshots' = Spliced(snapshots, snapshotNumber)
         /\ IF snapshotNumber >= Len(snapshots)
              THEN /\ rev' = [IdleRevert EXCEPT !.result = "false"]
                   /\ dbq' = dbq
              ELSE LET snapshot == snapshots[snapshotNumber + 1] IN
                   IF NothingAdded(Hash(latest), snapshot.hash)
                     THEN /\ rev' = [IdleRevert EXCEPT !.result = "true"]
                          /\ dbq' = dbq
                     ELSE /\ rev' = Walk([IdleRevert EXCEPT
                                            !.snapshot = snapshot,
                                            !.currentBlock = latest,
                                            !.rootPending = TRUE,
                                            !.fetched =
                                               GetByHash(snapshot.hash)],
                                         latest)
                          /\ dbq' = Append(dbq, DeleteBatch(latest))
  /\ UNCHANGED <<lifeVars, timeVars, chainVars, storeVars, tasks, poolVars,
                 snapshotId, emitted, execution>>

\* stateManager.setStateRoot(snapshot.stateRoot) takes effect
RevertSetStateRoot ==
  /\ MicrotasksDone
  /\ rev.rootPending
  /\ trie' = rev.snapshot.stateRoot
  /\ rev' = [rev EXCEPT !.rootPending = FALSE]
  /\ UNCHANGED <<lifeVars, timeVars, earliest, latest, processingBlock,
                 storeVars, dbq, tasks, poolVars, snapshots, snapshotId,
                 emitted, execution>>

\* the blocks.get of the walk has resolved
RevertGet(maxInFlight) ==
  /\ MicrotasksDone
  /\ rev.pc = "get"
  /\ LET block == WalkNext(rev.nextBlock) IN
     IF IsNull(block)
       THEN /\ rev' = [rev EXCEPT !.pc = "all"]
            /\ dbq' = dbq
       ELSE /\ Len(dbq) < maxInFlight
            /\ rev' = Walk(rev, block)
            /\ dbq' = Append(dbq, DeleteBatch(block))
  /\ UNCHANGED <<lifeVars, timeVars, chainVars, storeVars, tasks, poolVars,
                 snapshots, snapshotId, emitted, execution>>

\* Promise.all(promises) has resolved: latest = the block of the snapshot;
\* #timeAdjustment = snapshot.timeAdjustment; return true
RevertFinish ==
  /\ rev.pc = "all"
  /\ ~rev.rootPending
  /\ \A i \in DOMAIN dbq : dbq[i].kind # "delete"
  /\ latest' \in {rev.fetched, GetByHash(rev.snapshot.hash)}
  /\ timeAdjustment' = rev.snapshot.timeAdjustment
  /\ rev' = [IdleRevert EXCEPT !.result = "true"]
  /\ UNCHANGED <<lifeVars, now, trie, earliest, processingBlock, storeVars,
                 dbq, tasks, poolVars, snapshots, snapshotId, emitted,
                 execution>>

\* ---------------------------------------------------------------- executor
\* what a property is: absent, a function or a value that is no function
Kinds == {"none", "function", "data"}

\* the properties a ledger class may declare on its prototype besides its
\* constructor, and the own properties an instance may carry
Declared == {"eth_call", "toString"}
Carried == {"eth_call"}

\* the properties every object inherits from Object.prototype
ObjectPrototype == {"constructor", "toString", "hasOwnProperty", "valueOf"}

\* the ledgers: the own properties of the prototype and of the instance
Ledgers ==
  [proto : [Declared -> Kinds], own : [Carried -> Kinds]]

\* the values handed to execute as methodName: strings, among them a name
\* that is declared nowhere, and values that are no strings
MethodNames ==
  [type : {"string"},
   value : {"eth_call", "toString", "constructor", "hasOwnProperty",
            "eth_none"}]
    \cup [type : {"number"}, value : {"1"}]
    \cup [type : {"undefined"}, value : {"undefined"}]
    \cup [type : {"symbol"}, value : {"eth_call"}]
    \cup [type : {"object"}, value : {"{}", "{toString: null}"}]

\* ledger.__proto__.hasOwnProperty(name): a class prototype owns its
\* constructor and what the class declares
hasOwnProperty(ledger, name) ==
  \/ name = "constructor"
  \/ name \in Declared /\ ledger.proto[name] # "none"

\* ledger[name]: the own property of the instance, else that of the
\* prototype, else the inherited one
Lookup(ledger, name) ==
  IF name \in Carried /\ ledger.own[name] # "none"
    THEN [kind |-> ledger.own[name], of |-> "ledger", name |-> name]
  ELSE IF name \in Declared /\ ledger.proto[name] # "none"
    THEN [kind |-> ledger.proto[name], of |-> "prototype", name |-> name]
  ELSE IF name = "constructor"
    THEN [kind |-> "function", of |-> "prototype", name |-> name]
  ELSE IF name \in ObjectPrototype
    THEN [kind |-> "function", of |-> "Object.prototype", name |-> name]
  ELSE [kind |-> "none", of |-> "none", name |-> name]

\* the values `${methodName}` can make a string of: a symbol cannot be
\* converted, nor can an object whose toString is no function
Converts(methodName) ==
  /\ methodName.type # "symbol"
  /\ methodName # [type |-> "object", value |-> "{toString: null}"]

\* `${methodName}`
Template(methodName) ==
  IF methodName = [type |-> "object", value |-> "{}"]
    THEN "[object Object]"
    ELSE methodName.value

\* new Error(`Invalid or unsupported method: ${methodName}`), or the
\* TypeError of the template literal
InvalidMethod(methodName) ==
  IF Converts(methodName)
    THEN [error |-> "Error",
          message |-> <<"Invalid or unsupported method: ",
                        Template(methodName)>>]
    ELSE [error |-> "TypeError",
          message |-> <<"Cannot convert to a string">>]

\* the checks a method name passes before it is called
Accepted(ledger, methodName) ==
  /\ methodName.type = "string"
  /\ methodName.value # "constructor"
  /\ hasOwnProperty(ledger, methodName.value)
  /\ Lookup(ledger, methodName.value).kind = "function"

\* Executor.execute(ledger, methodName, params)
Execute ==
  /\ execution.pc = "execute"
  /\ LET ledger == execution.ledger
         methodName == execution.methodName
     IN IF Accepted(ledger, methodName)
          THEN execution' =
                 [execution EXCEPT
                    !.pc = "returned",
                    !.called = <<Lookup(ledger, methodName.value)>>]
          ELSE execution' =
                 [execution EXCEPT
                    !.pc = "thrown",
                    !.thrown = <<InvalidMethod(methodName)>>]
  /\ UNCHANGED <<lifeVars, timeVars, chainVars, storeVars, dbq, tasks,
                 poolVars, snapshots, snapshotId, rev, emitted>>

\* a call of execute with any ledger and any method name
InitExecutor ==
  /\ Constructed(DefaultOptions)
  /\ \E ledger \in Ledgers, methodName \in MethodNames :
       execution = [NoExecution EXCEPT !.pc = "execute",
                                       !.ledger = ledger,
                                       !.methodName = methodName]

SpecExecutor == InitExecutor /\ [][Execute]_vars

\* ------------------------------------------------------------ start-up
StartUp ==
  \/ DatabaseReady
  \/ AccountsCommitted
  \/ GenesisPersisted
  \/ StartFinish

\* the commit pipeline
Pipeline ==
  \/ MineContinue
  \/ MinerEmits
  \/ BlockHandler
  \/ CommitResolved

\* every operation, a few calls of each
Next ==
  \/ StartUp
  \/ Pipeline
  \/ Pause
  \/ Resume
  \/ Stop(MaxStop)
  \/ StopContinue
  \/ DatabaseClosed
  \/ QueueTransaction(MaxTx)
  \/ QueueTransactionReturn
  \/ ResumedMine
  \/ Mine(MaxMine)
  \/ \E seconds \in IncreaseTimeArgs : IncreaseTime(seconds, MaxAdjust)
  \/ \E timestamp \in SetTimeArgs : SetTime(timestamp)
  \/ Snapshot(MaxSnapshots)
  \/ DeleteLanded
  \/ RevertNull
  \/ \E rawValue \in 0..(MaxSnapshots + 1) : Revert(rawValue)
  \/ RevertSetStateRoot
  \/ RevertGet(MaxInFlight)
  \/ RevertFinish

Spec == Init /\ [][Next]_vars

\* the chain: mining, commits, snapshots, reverts and time, with enough
\* blocks for a revert over several of them
NextChain ==
  \/ StartUp
  \/ Pipeline
  \/ Mine(ChainMine)
  \/ \E seconds \in IncreaseTimeArgs : IncreaseTime(seconds, ChainAdjust)
  \/ \E timestamp \in SetTimeArgs : SetTime(timestamp)
  \/ Snapshot(ChainSnapshots)
  \/ DeleteLanded
  \/ RevertNull
  \/ \E rawValue \in 0..(ChainSnapshots + 1) : Revert(rawValue)
  \/ RevertSetStateRoot
  \/ RevertGet(ChainInFlight)
  \/ RevertFinish

SpecChain == Init /\ [][NextChain]_vars

\* instant mining and the lifecycle
NextInstant ==
  \/ StartUp
  \/ Pipeline
  \/ Pause
  \/ Resume
  \/ ResumeWarns(InstantWarned)
  \/ Stop(InstantStop)
  \/ StopContinue
  \/ DatabaseClosed
  \/ QueueTransaction(InstantTx)
  \/ QueueTransactionReturn
  \/ ResumedMine

SpecInstant == Init /\ [][NextInstant]_vars

\* instant mining on a chain that is never stopped
NextRunning ==
  \/ StartUp
  \/ Pipeline
  \/ Pause
  \/ Resume
  \/ QueueTransaction(RunningTx)
  \/ QueueTransactionReturn
  \/ ResumedMine

\* continuations run, reads and writes complete, the miner finishes its
\* run, and a paused chain is resumed
Scheduling ==
  /\ WF_vars(DatabaseReady)
  /\ WF_vars(AccountsCommitted)
  /\ WF_vars(GenesisPersisted)
  /\ WF_vars(StartFinish)
  /\ WF_vars(MineContinue)
  /\ WF_vars(MinerEmits)
  /\ WF_vars(BlockHandler)
  /\ WF_vars(CommitResolved)
  /\ WF_vars(QueueTransactionReturn)
  /\ WF_vars(ResumedMine)
  /\ WF_vars(Resume)

SpecRunning == Init /\ [][NextRunning]_vars /\ Scheduling

\* instant mining under any of the options, legacy instamine included
NextLegacy ==
  \/ StartUp
  \/ Pipeline
  \/ DelayedBroadcast
  \/ Pause
  \/ Resume
  \/ QueueTransaction(LegacyTx)
  \/ QueueTransactionReturn
  \/ QueueTransactionSettles
  \/ ResumedMine

SpecLegacy == InitOptions /\ [][NextLegacy]_vars

\* instant mining that is never paused, under any of the options: the
\* calls of queueTransaction and what they wait for
NextWaiting ==
  \/ StartUp
  \/ Pipeline
  \/ DelayedBroadcast
  \/ QueueTransaction(WaitingTx)
  \/ QueueTransactionReturn
  \/ QueueTransactionSettles

\* the continuations that are runnable run, in the order of the queue
Continuations ==
  /\ WF_vars(QueueTransactionReturn)
  /\ WF_vars(QueueTransactionSettles)
  /\ WF_vars(MineContinue)
  /\ WF_vars(BlockHandler)
  /\ WF_vars(DelayedBroadcast)

SpecWaiting == InitOptions /\ [][NextWaiting]_vars /\ Continuations

\* a chain that mines on an interval: transactions are queued, the chain is
\* paused and resumed, and the timer ticks
NextInterval ==
  \/ StartUp
  \/ Pipeline
  \/ Pause
  \/ Resume
  \/ QueueTransaction(IntervalTx)
  \/ QueueTransactionReturn
  \/ IntervalTick(IntervalTicks)
  \/ IntervalResumed

SpecInterval == InitInterval /\ [][NextInterval]_vars

\* a chain whose database may fail to write the batch of a commit
NextFailing ==
  \/ StartUp
  \/ Pipeline
  \/ CommitFailed(FailingCommits)
  \/ QueueTransaction(FailingTx)
  \/ QueueTransactionReturn
  \/ Mine(FailingMine)

SpecFailing == Init /\ [][NextFailing]_vars

\* snapshots and reverts on a chain that mines
NextSnapshots ==
  \/ StartUp
  \/ Pipeline
  \/ Mine(SnapMine)
  \/ \E seconds \in IncreaseTimeArgs : IncreaseTime(seconds, SnapAdjust)
  \/ Snapshot(SnapDepth)
  \/ DeleteLanded
  \/ RevertNull
  \/ \E rawValue \in 0..(SnapDepth + 1) : Revert(rawValue)
  \/ RevertSetStateRoot
  \/ RevertGet(SnapInFlight)
  \/ RevertFinish

SpecSnapshots == Init /\ [][NextSnapshots]_vars

\* the clock: every public operation that bears on the time but setTime,
\* while wall time passes
NextTime ==
  \/ StartUp
  \/ Pipeline
  \/ Mine(TimeMine)
  \/ Tick(TimeNow)
  \/ \E seconds \in IncreaseTimeArgs : IncreaseTime(seconds, TimeAdjust)
  \/ Snapshot(TimeDepth)
  \/ DeleteLanded
  \/ \E rawValue \in 0..(TimeDepth + 1) : Revert(rawValue)
  \/ RevertSetStateRoot
  \/ RevertGet(TimeInFlight)
  \/ RevertFinish

SpecTime == Init /\ [][NextTime]_vars

\* ============================================================= properties
\* the block whose hash is h
Preimage(h) == createBlock(h[2], h[1], h[3], h[4], h[5])

\* the blocks from block b back to, and without, the block of hash h
RECURSIVE ChainAfter(_, _)
ChainAfter(b, h) ==
  IF IsNull(b) \/ Hash(b) = h THEN {}
  ELSE IF b.number = 0 THEN {b}
  ELSE {b} \cup ChainAfter(Preimage(b.parentHash), h)

\* this step is a revert() returning true
RevertReturnsTrue ==
  /\ rev'.pc = "idle"
  /\ rev'.result = "true"
  /\ rev.pc # "idle" \/ Len(snapshots') < Len(snapshots)

\* the snapshot that revert() reverts to
RevertTarget ==
  IF rev.pc # "idle" THEN rev.snapshot ELSE snapshots[Len(snapshots') + 1]

\* the block that was latest when that revert() was called
RevertTip ==
  IF rev.pc # "idle" THEN rev.currentBlock ELSE latest

\* C1: when revert(n) returns true, the trie root, the hash of latest and
\* timeAdjustment are those captured by snapshot n.
C1_RoundTrip ==
  [][RevertReturnsTrue =>
       /\ trie' = RevertTarget.stateRoot
       /\ Hash(latest') = RevertTarget.hash
       /\ timeAdjustment' = RevertTarget.timeAdjustment]_vars

\* C2: when revert(n) returns true, no block committed after snapshot n is
\* stored under its number or its hash, and none of its transactions has a
\* transaction record or a receipt.
C2_RevertRemovesBlocks ==
  [][RevertReturnsTrue =>
       \A b \in ChainAfter(RevertTip, RevertTarget.hash) :
         /\ b.number \notin DOMAIN blocksByNumber'
         /\ b \notin blocksByHash'
         /\ b.transactions \cap txRecords' = {}
         /\ b.transactions \cap receiptRecords' = {}]_vars

\* C3: revert() takes its first step, the truncation of the snapshot stack,
\* only when no commit batch is in flight.
C3_RevertAwaitsCommit ==
  [][Len(snapshots') < Len(snapshots) => ~CommitInFlight]_vars

\* C4: at most one commit batch is in flight at any time.
C4_CommitsSerialised ==
  Cardinality({i \in DOMAIN dbq : dbq[i].kind \in {"commit", "genesis"}}) <= 1

\* the blocks in storage, under a number or under a hash
StoredBlocks ==
  {blocksByNumber[n] : n \in DOMAIN blocksByNumber} \cup blocksByHash

\* C5: every stored block above genesis has the hash of the block stored
\* under the number before its own as parentHash, and a block is assembled
\* with the number after that of latest.
C5_ChainLinkage ==
  /\ [](\A b \in StoredBlocks :
          b.number > 0 =>
            /\ (b.number - 1) \in DOMAIN blocksByNumber
            /\ b.parentHash = Hash(blocksByNumber[b.number - 1]))
  /\ [][Len(dbq') > Len(dbq) /\ dbq'[Len(dbq')].kind = "commit" =>
          dbq'[Len(dbq')].block.number = latest.number + 1]_vars

\* C6: earliest is assigned once, to genesis, and the number of latest
\* decreases only in the step of revert() that assigns latest.
C6_CursorMonotonic ==
  [][/\ earliest' # earliest => IsNull(earliest) /\ earliest'.number = 0
     /\ latest'.number < latest.number =>
          rev.pc = "all" /\ rev'.pc = "idle"]_vars

\* the lifecycle states from which stop() is said to be callable
StopCallable == {starting, started, started + paused, stopping, stopped}

\* C7: a stop() call, made in any of the lifecycle states, completes (emits
\* `stop`) with the state equal to stopped.
C7_StopEndsStopped ==
  [][/\ emitted'.stop > emitted.stop
     /\ database' # database \/ Runs("stop") \/ state \in StopCallable
     => state' = stopped]_vars

\* C8: Database.close is called only after the genesis block is persisted,
\* the state has become started and `start` has been emitted.
C8_CloseAfterStart ==
  database # "open" =>
    /\ startPc = "done"
    /\ emitted.start > 0
    /\ \A i \in DOMAIN dbq : dbq[i].kind # "genesis"

\* a stop() issued during start-up has closed the database
C8_Witness ==
  database = "closed" /\ closedBy = "waited"

\* the blocks of the chain from genesis to latest
Chain == ChainAfter(latest, ZeroHash)

\* the committed blocks of the chain that hold transaction t
Holders(t) == {b \in Chain : b \in blocksByHash /\ t \in b.transactions}

\* C9: in instant mode a transaction the pool has accepted is eventually in
\* a committed block of the chain, and never in two blocks of the chain.
C9_MinedExactlyOnce ==
  /\ \A t \in 1..RunningTx : (t < nextTx) ~> (Holders(t) # {})
  /\ [](\A t \in 1..RunningTx :
          Cardinality({b \in Chain : t \in b.transactions}) <= 1)

\* C9 with the transactions the VM fails to run set apart: in instant mode
\* an accepted transaction whose execution does not fail is eventually in a
\* committed block of the chain, one whose execution fails is eventually
\* reported by `transaction-failure:<hash>` and is in no block, and no
\* transaction is in two blocks of the chain.
C9_MinedUnlessFailing ==
  /\ \A t \in (1..RunningTx) \ Failing : (t < nextTx) ~> (Holders(t) # {})
  /\ \A t \in (1..RunningTx) \cap Failing :
       (t < nextTx) ~> (t \in emitted.failures)
  /\ [](\A t \in 1..RunningTx :
          /\ Cardinality({b \in Chain : t \in b.transactions}) <= 1
          /\ t \in Failing => \A b \in Chain : t \notin b.transactions)

\* a transaction queued during a pause is in a committed block, and one
\* has failed
C9_Witness ==
  /\ ~waitingOnResume
  /\ emitted.failures # {}
  /\ \E t \in returned : Holders(t) # {} /\ Holders(t) = {latest}
  /\ \E b \in Chain : Cardinality(b.transactions) > 1

\* pause() has been called and resume() has not been since
PauseInForce == emitted.last = "pause"

\* nothing is being mined or committed
PipelineIdle ==
  /\ \A i \in DOMAIN tasks : tasks[i].k \in {"queued", "stop"}
  /\ \A i \in DOMAIN dbq : dbq[i].kind # "commit"

\* transactions whose queueTransaction call has not returned
Queued ==
  UNION {tasks[i].txs : i \in {j \in DOMAIN tasks : tasks[j].k = "queued"}}

\* C10: between pause() and resume(), transactions queued into the pool
\* start no mining, so no block is committed and no `block` event is
\* emitted, and queueTransaction returns the hash.
C10_PauseBlocksMining ==
  [][PauseInForce /\ PauseInForce' /\ Callable /\ PipelineIdle =>
       /\ PipelineIdle'
       /\ emitted'.blocks = emitted.blocks
       /\ blocksByNumber' = blocksByNumber
       /\ Queued \subseteq Queued' \cup returned']_vars

\* the continuations of kind k that wait or are runnable
TasksOf(ts, k) == {i \in DOMAIN ts : ts[i].k = k}

\* the mine(maxTransactions) calls that wait for #processingBlock
MineCallsOf(ts, maxTransactions) ==
  {i \in TasksOf(ts, "mine") : ts[i].max = maxTransactions}

\* the transactions of the blocks for which `block` was emitted
EmittedTransactions == UNION {Preimage(h).transactions : h \in emitted.blocks}

\* a resume() made while the shared waitingOnResume promise is registered
\* leads to exactly one mine(-1) call, and a drain that finds the chain not
\* paused calls mine(1)
ResumeMinesOnce ==
  [][/\ (emitted.last = "pause" /\ emitted'.last = "resume"
        /\ waitingOnResume)
       => Cardinality(TasksOf(tasks', "resumed")) = 1
     /\ Cardinality(TasksOf(tasks', "resumed")) <= 1
     /\ Cardinality(MineCallsOf(tasks', -1))
          > Cardinality(MineCallsOf(tasks, -1))
        => /\ Cardinality(TasksOf(tasks, "resumed")) = 1
           /\ TasksOf(tasks', "resumed") = {}
           /\ Cardinality(MineCallsOf(tasks', -1))
                = Cardinality(MineCallsOf(tasks, -1)) + 1
           /\ ~waitingOnResume'
     /\ (nextTx' > nextTx /\ ~isPaused)
        => Cardinality(MineCallsOf(tasks', 1))
             = Cardinality(MineCallsOf(tasks, 1)) + 1]_vars

\* C11: a resume() made while the shared waitingOnResume promise is
\* registered leads to exactly one mine(-1) call, however many drains the
\* pause has seen; the transactions queued during the pause are eventually
\* in an emitted block; a drain that finds the chain not paused calls
\* mine(1).
C11_ResumeDrains ==
  /\ ResumeMinesOnce
  /\ \A t \in 1..RunningTx :
       (isPaused /\ waitingOnResume /\ t \in pool)
         ~> (t \in EmittedTransactions)

\* C11 with the transactions the VM fails to run set apart: one mine(-1)
\* call per resume() as above; the transactions queued during the pause
\* whose execution does not fail are eventually in an emitted block, and
\* those whose execution fails are eventually reported by
\* `transaction-failure:<hash>`.
C11_ResumeDrainsRunnable ==
  /\ ResumeMinesOnce
  /\ \A t \in (1..RunningTx) \ Failing :
       (isPaused /\ waitingOnResume /\ t \in pool)
         ~> (t \in EmittedTransactions)
  /\ \A t \in (1..RunningTx) \cap Failing :
       (isPaused /\ waitingOnResume /\ t \in pool)
         ~> (t \in emitted.failures /\ t \notin pool)

\* a resume has emitted a block with all that two drains of a pause had
\* queued, and a later drain has called mine(1)
C11_Witness ==
  /\ \E h \in emitted.blocks : Cardinality(Preimage(h).transactions) = 2
  /\ ~isPaused
  /\ ~waitingOnResume
  /\ MineCallsOf(tasks, 1) # {}
  /\ MineCallsOf(tasks, -1) = {}

\* C12: in the step that emits `block` for a block, the block is stored
\* under its number and under its hash, each of its transactions has its
\* record and its receipt, its BlockLogs are stored under its number, and
\* its batch is no longer in flight.
C12_PersistedBeforeBroadcast ==
  [][\A h \in emitted'.blocks \ emitted.blocks :
       LET b == Preimage(h) IN
         /\ b.number \in DOMAIN blocksByNumber'
         /\ blocksByNumber'[b.number] = b
         /\ b \in blocksByHash'
         /\ b.transactions \subseteq txRecords'
         /\ b.transactions \subseteq receiptRecords'
         /\ b.number \in DOMAIN blockLogRecords'
         /\ blockLogRecords'[b.number] = h
         /\ \A i \in DOMAIN dbq' :
              dbq'[i].kind = "commit" => dbq'[i].block # b]_vars

\* `block` has been emitted for a block with a transaction while a revert
\* was deleting blocks
C12_Witness ==
  /\ \E h \in emitted.blocks : Preimage(h).transactions # {}
  /\ rev.pc # "idle"
  /\ \E i \in DOMAIN dbq : dbq[i].kind = "delete"

\* C13: in legacy instamine mode, for every committed block the
\* `transaction:<hash>` event of each of its transactions is emitted before
\* the `block` event of that block, and `block` is emitted before
\* `blockLogs`; without legacy instamine no `transaction:<hash>` event is
\* emitted and `block` still precedes `blockLogs`.
C13_EventOrder ==
  [][/\ \A h \in emitted'.blocks \ emitted.blocks :
          /\ options.legacyInstamine
               => Preimage(h).transactions \subseteq emitted.transactions
          /\ h \notin emitted.blockLogs
          /\ h \in emitted'.blockLogs
          /\ emitted'.broadcast = <<"block", "blockLogs">>
     /\ emitted'.blockLogs \subseteq emitted'.blocks
     /\ ~options.legacyInstamine => emitted'.transactions = {}]_vars

C13_Witness ==
  /\ options.legacyInstamine
  /\ \E h \in emitted.blockLogs : Preimage(h).transactions # {}
  /\ \E h \in emitted.blockLogs : Preimage(h).transactions = {}

\* C14: in legacy instamine mode with the chain not paused,
\* queueTransaction(tx) returns the hash only after `transaction:<hash>`
\* has been emitted for that transaction; if `transaction-failure:<hash>`
\* is emitted first it throws that error instead of returning, and the
\* error carries the hash as `.result` exactly when vmErrorsOnRPCResponse
\* is true.  A call that finds the chain paused returns at once.
C14_ReturnsAfterMined ==
  [][/\ \A t \in returned' \ returned :
          options.legacyInstamine
            => \/ t \in emitted.transactions /\ t \notin emitted.failures
               \/ isPaused /\ t \in Queued
     /\ \A e \in thrown' \ thrown :
          /\ options.legacyInstamine
          /\ e.tx \in emitted.failures
          /\ e.tx \notin emitted.transactions
          /\ e.tx \notin returned'
          /\ e.result = options.vmErrorsOnRPCResponse
     /\ \A i \in TasksOf(tasks, "raced") :
          /\ tasks[i].txs \cap emitted'.failures # {}
               => i \in TasksOf(tasks', "transaction-failure")
          /\ tasks[i].txs \cap emitted'.transactions # {}
               => i \in TasksOf(tasks', "transaction")]_vars

C14_Witness ==
  /\ options.legacyInstamine
  /\ emitted.last = "none"
  /\ \E e \in thrown : e.result
  /\ \E t \in returned : t \in emitted.transactions

\* the lifecycle: the values of the state and its changes
LifecycleStates == {starting, started, started + paused, stopping, stopped}

LifecycleChanges ==
  {<<starting, started>>, <<started, started + paused>>,
   <<started + paused, started>>, <<started, stopping>>,
   <<stopping, stopped>>}

\* C15: under any pause(), resume() and stop() calls, made at any time, the
\* state is one of starting, started, started|paused, stopping and stopped,
\* and it changes only starting -> started, started <-> started|paused and
\* started -> stopping -> stopped.
C15_Lifecycle ==
  /\ [](state \in LifecycleStates)
  /\ [][state' # state => <<state, state'>> \in LifecycleChanges]_vars

\* C16: `start` is emitted once, and only when the initial accounts are
\* committed, the genesis block (number 0, stateRoot the trie root after
\* the commit of the initial accounts) is persisted, earliest = latest =
\* genesis and the state is started; before that the state is never
\* started.
C16_StartOrdering ==
  /\ [](emitted.start <= 1)
  /\ [](emitted.start = 0 => ~HasFlag(state, started))
  /\ [][emitted'.start > emitted.start =>
          /\ AccountsItem \in trie'
          /\ 0 \in DOMAIN blocksByNumber'
          /\ LET genesis == blocksByNumber'[0] IN
               /\ genesis.number = 0
               /\ genesis.stateRoot = EmptyRoot \cup {AccountsItem}
               /\ genesis.stateRoot = trie'
               /\ genesis \in blocksByHash'
               /\ earliest' = genesis
               /\ latest' = genesis
          /\ \A i \in DOMAIN dbq' : dbq'[i].kind # "genesis"
          /\ state' = started]_vars

\* the chain has started although pause() and stop() were called during
\* start-up
C16_Witness ==
  /\ emitted.start = 1
  /\ state = started
  /\ emitted.last = "pause"
  /\ \E i \in DOMAIN tasks : tasks[i].k = "stop"

\* latest, the trie root, the snapshot stack and timeAdjustment
ChainState == <<latest, trie, snapshots, timeAdjustment>>

\* C17: pause() sets only the paused bit and emits `pause`; resume() with
\* the paused bit set clears only that bit and emits `resume`; resume()
\* with the paused bit not set changes no state and emits no `resume`;
\* none of them changes latest, the trie root, the snapshot stack or
\* timeAdjustment.
C17_PauseResumeBit ==
  [][/\ (emitted'.last = "pause" /\ emitted.last # "pause")
          \/ (HasFlag(state', paused) /\ ~HasFlag(state, paused))
          => /\ state' = state + paused
             /\ emitted'.last = "pause"
             /\ ChainState' = ChainState
     /\ (emitted'.last = "resume" /\ emitted.last # "resume")
          => /\ isPaused
             /\ state' = state - paused
             /\ ChainState' = ChainState
     /\ emitted'.warned > emitted.warned
          => /\ ~isPaused
             /\ state' = state
             /\ emitted'.last = emitted.last
             /\ ChainState' = ChainState
             /\ <<storeVars, dbq, tasks, poolVars, rev>>'
                  = <<storeVars, dbq, tasks, poolVars, rev>>]_vars

\* pause(), resume() and a resume() of a chain that is not paused have
\* been called on a chain with a mined block
C17_Witness ==
  /\ emitted.last = "resume"
  /\ emitted.warned > 0
  /\ latest.number > 0
  /\ state = started

\* C18: snapshot() appends exactly one entry (the hash of latest, the
\* stateRoot of the header of latest, the current timeAdjustment) to the
\* snapshot stack and returns the length of the stack after the push; it
\* changes nothing else: latest, the trie root, storage, timeAdjustment and
\* the earlier entries of the stack.
C18_SnapshotAppends ==
  [][Len(snapshots') > Len(snapshots) =>
       /\ Len(snapshots') = Len(snapshots) + 1
       /\ \A i \in DOMAIN snapshots : snapshots'[i] = snapshots[i]
       /\ snapshots'[Len(snapshots')] =
            [hash |-> Hash(latest), stateRoot |-> latest.stateRoot,
             timeAdjustment |-> timeAdjustment]
       /\ snapshotId' = Len(snapshots')
       /\ snapshotId' = 1 + IndexOfLast(snapshots')
       /\ <<chainVars, storeVars, timeVars, dbq, tasks, rev, emitted>>'
            = <<chainVars, storeVars, timeVars, dbq, tasks, rev, emitted>>]_vars

\* a second snapshot was taken on a mined block after time was increased,
\* on top of a first one of genesis
C18_Witness ==
  /\ Len(snapshots) = 2
  /\ snapshotId = 2
  /\ snapshots[1].hash # snapshots[2].hash
  /\ snapshots[2].timeAdjustment > snapshots[1].timeAdjustment
  /\ snapshots[2].hash = Hash(latest)

\* this step is a revert() that throws or returns false
RevertRefuses ==
  /\ rev.pc = "idle"
  /\ rev'.pc = "idle"
  /\ rev' # rev
  /\ rev'.result \in {"threw", "false"}

\* C19: a revert with a null or undefined ordinal throws, and revert(n) with
\* n <= 0 or n greater than the number of snapshots returns false; in each
\* case the snapshot stack, latest, the trie root, storage and
\* timeAdjustment are as before the call.
C19_InvalidRevert ==
  [][/\ RevertRefuses =>
          <<snapshots, latest, trie, storeVars, timeAdjustment, dbq>>'
            = <<snapshots, latest, trie, storeVars, timeAdjustment, dbq>>
     /\ (rev.pc = "idle" /\ rev' # rev /\ ~RevertRefuses)
          => Len(snapshots') < Len(snapshots)]_vars

\* a revert has been refused on a chain with two snapshots and a mined
\* block
C19_Witness ==
  /\ rev.pc = "idle"
  /\ rev.result = "false"
  /\ Len(snapshots) = 2
  /\ latest.number > 0

\* this step is the end of a revert() that deleted blocks: latest and
\* timeAdjustment are put back
RevertRestores == rev.pc = "all" /\ rev'.pc = "idle"

\* C20: currentTime() never decreases over increaseTime (of any argument),
\* mine, snapshot and revert, given a wall clock that never goes back.
C20_TimeMonotonic ==
  [][currentTime' >= currentTime]_vars

\* C20 with revert set apart: currentTime() never decreases over
\* increaseTime, mine, snapshot and a revert that is refused or finds
\* nothing added; a revert that deletes blocks puts timeAdjustment back to
\* that of the snapshot, whatever it is.
C20_TimeMonotonicButRevert ==
  [][/\ ~RevertRestores => currentTime' >= currentTime
     /\ RevertRestores =>
          /\ timeAdjustment' = rev.snapshot.timeAdjustment
          /\ now' = now]_vars

\* time was increased after a snapshot and a revert to it has put the
\* adjustment back
C20_Witness ==
  /\ rev.pc = "idle"
  /\ rev.result = "true"
  /\ now > 0
  /\ \E i \in DOMAIN snapshots : snapshots[i].timeAdjustment > timeAdjustment

\* what a tick of the interval timer has in progress: the wait for "resume",
\* the mine(-1) call and the run of the miner it starts
OfTick(ts) == {i \in DOMAIN ts : ts[i].interval}

\* the mine(-1) calls of ticks that have not resolved
TickMines(ts) == {i \in OfTick(ts) : ts[i].k \in {"mine", "miner"}}

\* the ticks that wait for "resume"
TickWaits(ts) == {i \in OfTick(ts) : ts[i].k = "tick-paused"}

\* no block but the genesis block is being mined, written or stored
NothingMined ==
  /\ emitted.blocks = {}
  /\ \A i \in DOMAIN tasks : tasks[i].k \notin {"mine", "miner", "block"}
  /\ \A i \in DOMAIN dbq : dbq[i].kind # "commit"
  /\ \A b \in blocksByHash : b.number = 0

\* a step of the interval timer and of what it starts: a tick calls mine(-1)
\* or waits for "resume", a wait that ends calls mine(-1), and the timer is
\* set again only as a mine(-1) of a tick resolves
TickStep ==
  LET mines == Cardinality(TickMines(tasks))
      minesAfter == Cardinality(TickMines(tasks'))
      waits == Cardinality(TickWaits(tasks))
      waitsAfter == Cardinality(TickWaits(tasks'))
  IN /\ timer'.ticks # timer.ticks =>
          /\ timer'.ticks = timer.ticks + 1
          /\ timer'.pending = 0
          /\ IF isPaused
               THEN minesAfter = mines /\ waitsAfter = waits + 1
               ELSE minesAfter = mines + 1 /\ waitsAfter = waits
          /\ \A i \in TickMines(tasks') : tasks'[i].max = -1
     /\ timer'.ticks = timer.ticks =>
          /\ waitsAfter <= waits
          /\ minesAfter > mines =>
               /\ minesAfter = mines + 1
               /\ waitsAfter = waits - 1
               /\ Runs("tick-paused")
          /\ timer'.pending > timer.pending /\ startPc = "done" =>
               /\ minesAfter = mines - 1
               /\ OfTick(tasks') = {}

Executed == execution.pc \in {"returned", "thrown"}

\* the method name is a string other than "constructor", an own property of
\* the ledger's prototype, and resolves to a function
Whitelisted ==
  /\ execution.methodName.type = "string"
  /\ execution.methodName.value # "constructor"
  /\ hasOwnProperty(execution.ledger, execution.methodName.value)
  /\ Lookup(execution.ledger, execution.methodName.value).kind = "function"

\* execute calls a function only for a whitelisted method name, and calls
\* nothing and throws for every other one
ExecuteIsWhitelist ==
  Executed =>
    IF Whitelisted
      THEN /\ Len(execution.called) = 1
           /\ execution.called[1].kind = "function"
           /\ execution.called[1].name = execution.methodName.value
           /\ execution.thrown = <<>>
      ELSE /\ execution.called = <<>>
           /\ Len(execution.thrown) = 1

\* C22: execute calls a function of the ledger only if methodName is a
\* string, is not "constructor", is an own property of the ledger's
\* prototype and resolves to a function; for every other methodName it
\* calls nothing and throws 'Invalid or unsupported method: <name>'.
C22_Whitelist ==
  /\ ExecuteIsWhitelist
  /\ Executed /\ ~Whitelisted =>
       execution.thrown =
         <<[error |-> "Error",
            message |-> <<"Invalid or unsupported method: ",
                          Template(execution.methodName)>>]>>

\* the blocks whose commit batch has failed
FailedCommits == {Preimage(h) : h \in emitted.unhandled}

\* nothing of block b is in storage
NothingStored(b) ==
  /\ b \notin blocksByHash
  /\ \A n \in DOMAIN blocksByNumber : blocksByNumber[n] # b
  /\ b.transactions \cap txRecords = {}
  /\ b.transactions \cap receiptRecords = {}
  /\ \A n \in DOMAIN blockLogRecords : blockLogRecords[n] # Hash(b)

\* C23: if the batch of a block commit fails, none of the block, its
\* transactions, its receipts or its logs are stored, no `block` event is
\* emitted for it, and latest references a block that is persisted in
\* storage.
C23_NoPartialState ==
  \A b \in FailedCommits :
    /\ NothingStored(b)
    /\ Hash(b) \notin emitted.blocks
    /\ latest \in blocksByHash

\* a failed commit stores nothing and emits no `block`
FailedCommitStoresNothing ==
  \A b \in FailedCommits : NothingStored(b) /\ Hash(b) \notin emitted.blocks

\* this step is a turn of the walk of revert: a delete batch is opened
WalkTurn ==
  /\ Len(dbq') = Len(dbq) + 1
  /\ dbq'[Len(dbq')].kind = "delete"

\* the block that this turn of the walk visits
Visited == dbq'[Len(dbq')].block

\* this step ends the walk of revert
WalkStops == rev.pc # "all" /\ rev'.pc = "all"

\* C24: the walk of revert starts at latest, visits each block committed
\* after the snapshot once, in strictly decreasing block-number order (each
\* block visited after the first is the parent of the one before), opens
\* one delete batch per visited block, and stops at the block whose
\* parentHash is the snapshot hash.
C24_WalkExact ==
  [][/\ WalkTurn /\ rev.pc = "idle" => Visited = latest
     /\ WalkTurn /\ rev.pc # "idle" =>
          /\ Visited.number = rev.nextBlock.number - 1
          /\ Hash(Visited) = rev.nextBlock.parentHash
     /\ WalkStops => rev'.nextBlock.parentHash = rev'.snapshot.hash]_vars

\* revert() has not returned false in this step
NotRefused == ~(rev'.pc = "idle" /\ rev'.result = "false")

\* C25: revert(n) with 1 <= n <= stack size leaves exactly the first n-1
\* snapshots, with their captured values, also when it returns early;
\* with the stack at that size a revert(m), m >= n, returns false and
\* leaves the stack alone, a revert to an ordinal still on the stack is not
\* refused, and the next snapshot() returns n, the size of the stack plus
\* one.
C25_RevertTruncates ==
  [][/\ \A n \in 0..(SnapDepth + 1) :
          Revert(n) =>
            IF 1 <= n /\ n <= Len(snapshots)
              THEN /\ Len(snapshots') = n - 1
                   /\ \A i \in 1..(n - 1) : snapshots'[i] = snapshots[i]
                   /\ NotRefused
              ELSE /\ ~NotRefused
                   /\ snapshots' = snapshots
     /\ Len(snapshots') > Len(snapshots) =>
          /\ snapshotId' = Len(snapshots) + 1
          /\ \A i \in DOMAIN snapshots : snapshots'[i] = snapshots[i]]_vars

\* of two snapshots the second was reverted to, which has returned true at
\* once as nothing was added, and the first is still on the stack
C25_Witness ==
  /\ rev.pc = "idle"
  /\ rev.result = "true"
  /\ snapshotId = 2
  /\ Len(snapshots) = 1
  /\ snapshots[1].hash # Hash(latest)

\* everything but the snapshot stack and the result of revert()
AllButSnapshots ==
  <<lifeVars, timeVars, chainVars, storeVars, dbq, tasks, poolVars,
    snapshotId, emitted, execution>>

\* C26: when revert(n) finds the hash of latest equal to the hash of the
\* target snapshot it returns true at once: setStateRoot is not called, no
\* delete batch is opened, latest and timeAdjustment are not assigned; but
\* for the truncated snapshot stack the state is as before the call.
C26_EarlyReturnFrame ==
  [][\A n \in 1..SnapDepth :
       (/\ Revert(n)
        /\ n <= Len(snapshots)
        /\ snapshots[n].hash = Hash(latest)) =>
         /\ rev'.pc = "idle"
         /\ rev'.result = "true"
         /\ ~rev'.rootPending
         /\ snapshots' = SubSeq(snapshots, 1, n - 1)
         /\ AllButSnapshots' = AllButSnapshots]_vars

\* a snapshot of a mined block was reverted to with nothing added: the
\* block is still latest and still stored
C26_Witness ==
  /\ rev.pc = "idle"
  /\ rev.result = "true"
  /\ snapshotId = 1
  /\ snapshots = <<>>
  /\ latest.number = 1
  /\ latest \in blocksByHash
  /\ dbq = <<>>

\* the transactions for which `transaction:<hash>` or
\* `transaction-failure:<hash>` has been emitted
Announced == emitted.transactions \cup emitted.failures

\* the transactions whose queueTransaction call has returned or thrown
Settled == returned \cup {e.tx : e \in thrown}

\* the transactions of calls that have not subscribed yet, or that wait for
\* one of their two events
Unsubscribed == Queued

Subscribed ==
  UNION {tasks[i].txs : i \in {j \in DOMAIN tasks : tasks[j].k = "raced"}}

\* C27: in legacy instamine mode a queueTransaction call whose transaction
\* the miner processes eventually returns or throws: no event of a
\* transaction is emitted while its call has yet to subscribe, a call that
\* waits has missed neither event, and once an event of a transaction is
\* emitted its call returns or throws.
C27_QueueTransactionSettles ==
  /\ [](Unsubscribed \cap Announced = {})
  /\ [](Subscribed \cap Announced = {})
  /\ \A t \in 1..WaitingTx : (t \in Announced) ~> (t \in Settled)

\* in legacy instamine mode three calls waited for their events: two have
\* returned and the one of the failing transaction has thrown
C27_Witness ==
  /\ options.legacyInstamine
  /\ returned = {1, 2}
  /\ Settled = 1..WaitingTx
  /\ returned \subseteq emitted.transactions
  /\ tasks = <<>>

\* C28: the paused bit, once set by pause(), stays set until resume() is
\* called: no other step clears it, the assignment of started at the end of
\* start-up included.
C28_PausedUntilResume ==
  [][isPaused /\ ~isPaused' => Resume]_vars

\* C29: when revert(n) returns true, storage holds no BlockLogs record
\* under a block number greater than the number of latest: the record of a
\* block is removed with the block.
C29_RevertRemovesBlockLogs ==
  [][RevertReturnsTrue =>
       \A n \in DOMAIN blockLogRecords' : n <= latest'.number]_vars

====
